---- MODULE Spec2Model ----
(***************************************************************************)
(* roster-to-qti-results: the command line tool of src/docs/output-spec.md *)
(* (the TypeScript listing, lines 47-468).  One run of the tool is a       *)
(* sequential pipeline: parseArgs, the option checks of main, readRosterCsv,*)
(* readAssessmentTestItemIds, buildOutputPlan, then either the dry-run      *)
(* summary or ensureWritable, writeOutputs and the final summary.           *)
(*                                                                         *)
(* Text is modelled as a sequence of one-character strings; fixed pieces   *)
(* of text that the program never looks into (message texts, tag names)    *)
(* are single tokens of such a sequence.                                   *)
(***************************************************************************)
EXTENDS Integers, Sequences, FiniteSets, TLC

VARIABLES
    argv,        \* process.argv.slice(2)
    args,        \* CliArgs built by parseArgs
    pc,          \* position of the run inside main
    fs,          \* the output side of the file system
    fsAtStart,   \* history: fs as it was when the run began
    roster,      \* the roster file as read by readRosterCsv
    testDoc,     \* the assessment test as read by readAssessmentTestItemIds
    rows,        \* RosterRow[] returned by readRosterCsv
    itemIds,     \* string[] returned by readAssessmentTestItemIds
    datestamp,   \* testResultDatestamp of main (<<>> is undefined)
    outputs,     \* OutputPlan[] returned by buildOutputPlan
    written,     \* number of plan entries writeOutputs has written
    stdout,      \* lines written to process.stdout
    stderr,      \* lines written to process.stderr
    exitCode     \* Running while the process runs, then its exit status

vars == <<argv, args, pc, fs, fsAtStart, roster, testDoc, rows, itemIds, datestamp,
          outputs, written, stdout, stderr, exitCode>>

-----------------------------------------------------------------------------
(* Bounds of the model.                                                     *)

\* Most lines (blank or not) of a roster file, after the header line.
MaxRows == 2

\* Most elements of an assessment test document.
MaxItems == 3

-----------------------------------------------------------------------------
(* Text helpers.                                                            *)

\* exitCode while the process has not exited.
Running == <<>>

Digits == {"0", "1", "2", "3", "4", "5", "6", "7", "8", "9"}

DigitChars == <<"0", "1", "2", "3", "4", "5", "6", "7", "8", "9">>

Whitespace == {" "}

RECURSIVE TrimStart(_)
TrimStart(s) ==
    IF s # <<>> /\ Head(s) \in Whitespace THEN TrimStart(Tail(s)) ELSE s

RECURSIVE TrimEnd(_)
TrimEnd(s) ==
    IF s # <<>> /\ s[Len(s)] \in Whitespace
    THEN TrimEnd(SubSeq(s, 1, Len(s) - 1))
    ELSE s

\* String.prototype.trim
Trim(s) == TrimEnd(TrimStart(s))

\* Template literal `${n}` of a non-negative integer.
RECURSIVE IntToStr(_)
IntToStr(n) ==
    IF n < 10 THEN <<DigitChars[n + 1]>>
    ELSE IntToStr(n \div 10) \o <<DigitChars[(n % 10) + 1]>>

\* HasDigit with the pattern /\w/ in place of /\d/.
HasDigit_AnyWordChar(s) == \E i \in 1..Len(s) : s[i] \notin Whitespace

\* /\d/.test(s)
HasDigit(s) == \E i \in 1..Len(s) : s[i] \in Digits

EscapeChar(c) ==
    CASE c = "&" -> <<"&", "a", "m", "p", ";">>
      [] c = "<" -> <<"&", "l", "t", ";">>
      [] c = ">" -> <<"&", "g", "t", ";">>
      [] c = "\"" -> <<"&", "q", "u", "o", "t", ";">>
      [] c = "'" -> <<"&", "a", "p", "o", "s", ";">>
      [] OTHER -> <<c>>

RECURSIVE escapeXml(_)
escapeXml(value) ==
    IF value = <<>> THEN <<>>
    ELSE EscapeChar(Head(value)) \o escapeXml(Tail(value))

-----------------------------------------------------------------------------
(* Paths.  A path is the sequence of its segments below the resolved       *)
(* output directory; a leading ".." segment leaves that directory.         *)

\* The segments of p between the "/" separators, empty segments included.
RECURSIVE SplitSegments(_, _)
SplitSegments(p, cur) ==
    IF p = <<>> THEN <<cur>>
    ELSE IF Head(p) = "/" THEN <<cur>> \o SplitSegments(Tail(p), <<>>)
    ELSE SplitSegments(Tail(p), Append(cur, Head(p)))

\* path.normalize on the segments: "" and "." vanish, ".." takes back the
\* segment before it (or stays when there is none to take back).
RECURSIVE NormalizeSegments(_, _)
NormalizeSegments(segs, acc) ==
    IF segs = <<>> THEN acc
    ELSE LET s == Head(segs) IN
         IF s = <<>> \/ s = <<".">> THEN NormalizeSegments(Tail(segs), acc)
         ELSE IF s = <<".", ".">>
              THEN IF acc # <<>> /\ acc[Len(acc)] # <<".", ".">>
                   THEN NormalizeSegments(Tail(segs), SubSeq(acc, 1, Len(acc) - 1))
                   ELSE NormalizeSegments(Tail(segs), Append(acc, s))
         ELSE NormalizeSegments(Tail(segs), Append(acc, s))

\* path.join(outputDir, name), relative to outputDir.
PathJoin(name) == NormalizeSegments(SplitSegments(name, <<>>), <<>>)

-----------------------------------------------------------------------------
(* The roster reader.                                                       *)

\* The header line of the roster (columns: true).
Columns == <<"candidate_number", "candidate_name", "candidate_account",
             "candidate_id", "result_id">>

\* A roster file that does not exist, and one holding the given lines after
\* its header.  A line is the sequence of its cells; the empty line has none.
NoFile == [exists |-> FALSE, lines |-> <<>>]
FileOf(lines) == [exists |-> TRUE, lines |-> lines]

IsEmptyLine(line) == line = <<>>

RECURSIVE DropEmptyLines(_)
DropEmptyLines(lines) ==
    IF lines = <<>> THEN <<>>
    ELSE IF IsEmptyLine(Head(lines)) THEN DropEmptyLines(Tail(lines))
    ELSE <<Head(lines)>> \o DropEmptyLines(Tail(lines))

\* parseCsv(csvText, {columns: true, bom: true, skip_empty_lines: true,
\* trim: true}): empty lines give no record, every other line gives a record
\* keyed by the header's column names, its cells trimmed.
parseCsv(lines) ==
    LET kept == DropEmptyLines(lines) IN
    [i \in 1..Len(kept) |->
        [c \in {Columns[k] : k \in 1..Len(Columns)} |->
            LET k == CHOOSE j \in 1..Len(Columns) : Columns[j] = c
            IN  Trim(kept[i][k])]]

Ok(value) == [ok |-> TRUE, value |-> value, error |-> <<>>]
Err(message) == [ok |-> FALSE, value |-> <<>>, error |-> message]

\* ResultIdOf with the candidate_number always taken, result_id ignored.
ResultIdOf_NumberOnly(record) == Trim(record["candidate_number"])

\* The resultId of a record: result_id, or candidate_number when it is empty.
ResultIdOf(record) ==
    LET candidateNumber == Trim(record["candidate_number"])
        resultIdRaw == Trim(record["result_id"])
    IN  IF resultIdRaw # <<>> THEN resultIdRaw ELSE candidateNumber

\* The body of records.forEach in readRosterCsv, from record index + 1 on:
\* rowsSoFar and seen are the reader's rows and seen at that point.
RECURSIVE ForEachRecord(_, _, _, _)
ForEachRecord(records, i, rowsSoFar, seen) ==
    IF i > Len(records) THEN Ok(rowsSoFar)
    ELSE
    LET record == records[i]
        index == i - 1
        candidateNumber == Trim(record["candidate_number"])
        candidateName == Trim(record["candidate_name"])
        candidateAccount == Trim(record["candidate_account"])
        candidateId == Trim(record["candidate_id"])
        resultId == ResultIdOf(record)
    IN  IF candidateNumber = <<>>
        THEN Err(<<"Missing candidate_number at row ">> \o IntToStr(index + 2) \o <<".">>)
        ELSE IF ~HasDigit(candidateNumber)
        THEN Err(<<"candidate_number must include at least one digit">>)
        ELSE IF candidateName = <<>>
        THEN Err(<<"Missing candidate_name at row ">> \o IntToStr(index + 2) \o <<".">>)
        ELSE IF resultId = <<>>
        THEN Err(<<"Missing result_id at row ">> \o IntToStr(index + 2) \o <<".">>)
        ELSE IF resultId \in seen
        THEN Err(<<"Duplicate result_id: ">> \o resultId)
        ELSE ForEachRecord(records, i + 1,
                 Append(rowsSoFar,
                        [candidateNumber |-> candidateNumber,
                         candidateName |-> candidateName,
                         candidateAccount |-> candidateAccount,
                         candidateId |-> candidateId,
                         resultId |-> resultId]),
                 seen \cup {resultId})

\* readRosterCsv(rosterPath) on the file found at rosterPath.
readRosterCsv(file) ==
    IF ~file.exists THEN Err(<<"ENOENT: no such file or directory, open roster">>)
    ELSE LET records == parseCsv(file.lines) IN
         IF Len(records) = 0 THEN Err(<<"Roster CSV is empty.">>)
         ELSE ForEachRecord(records, 1, <<>>, {})

-----------------------------------------------------------------------------
(* The assessment item extractor.                                           *)

ItemRefTag == "qti-assessment-item-ref"

QuoteChars == {"\"", "'"}

\* An element of the assessment test: its tag, whether it carries an
\* identifier attribute, and that attribute's value.
Element(tag, hasIdentifier, identifier) ==
    [tag |-> tag, hasIdentifier |-> hasIdentifier, identifier |-> identifier]

\* Whether the pattern
\*   /<qti-assessment-item-ref\b[^>]*\bidentifier\s*=\s*(["'])([^"']+)\1[^>]*\/?\s*>/g
\* matches the element: the tag is the item reference tag and the identifier
\* attribute holds at least one character, none of them a quote.
PatternMatches(e) ==
    /\ e.tag = ItemRefTag
    /\ e.hasIdentifier
    /\ Len(e.identifier) >= 1
    /\ \A i \in 1..Len(e.identifier) : e.identifier[i] \notin QuoteChars

\* The while (match) loop: match[2] of every match, in document order.
RECURSIVE ExecAll(_)
ExecAll(doc) ==
    IF doc = <<>> THEN <<>>
    ELSE IF PatternMatches(Head(doc))
         THEN <<Head(doc).identifier>> \o ExecAll(Tail(doc))
         ELSE ExecAll(Tail(doc))

\* The for (const itemId of itemIds) loop, from position i on.
RECURSIVE CheckItemIds(_, _, _)
CheckItemIds(ids, i, seen) ==
    IF i > Len(ids) THEN Ok(ids)
    ELSE IF ids[i] = <<>>
    THEN Err(<<"Assessment test item identifier is empty.">>)
    ELSE IF ids[i] \in seen
    THEN Err(<<"Duplicate assessment test item identifier: ">> \o ids[i])
    ELSE CheckItemIds(ids, i + 1, seen \cup {ids[i]})

\* readAssessmentTestItemIds(assessmentTestPath) on the file found there
\* (lines: its elements in document order).
readAssessmentTestItemIds(file) ==
    IF ~file.exists
    THEN Err(<<"ENOENT: no such file or directory, open assessment-test">>)
    ELSE LET ids == ExecAll(file.lines) IN
         IF Len(ids) = 0
         THEN Err(<<"No assessment item refs found in assessment test.">>)
         ELSE CheckItemIds(ids, 1, {})

-----------------------------------------------------------------------------
(* The output planner and the document renderer.                            *)

\* `assessmentResult-${row.resultId}.xml`
FileName(resultId) == <<"assessmentResult-">> \o resultId \o <<".xml">>

\* buildOutputPlan(outputDir, rows)
buildOutputPlan(rs) ==
    [i \in 1..Len(rs) |->
        [resultId |-> rs[i].resultId, path |-> PathJoin(FileName(rs[i].resultId))]]

SessionIdentifier(sourceID, identifier) ==
    [tag |-> "sessionIdentifier",
     attrs |-> [sourceID |-> sourceID, identifier |-> escapeXml(identifier)]]

\* ItemResult with the 0-based index of forEach as the sequenceIndex.
ItemResult_ZeroBased(itemId, index, testResultDatestamp) ==
    IF testResultDatestamp # <<>>
    THEN [tag |-> "itemResult",
          attrs |-> [identifier |-> escapeXml(itemId),
                     sequenceIndex |-> IntToStr(index),
                     datestamp |-> escapeXml(testResultDatestamp),
                     sessionStatus |-> <<"final">>]]
    ELSE [tag |-> "itemResult",
          attrs |-> [identifier |-> escapeXml(itemId),
                     sequenceIndex |-> IntToStr(index),
                     sessionStatus |-> <<"final">>]]

\* The itemResult line of itemIds.forEach for the item at 0-based index.
ItemResult(itemId, index, testResultDatestamp) ==
    IF testResultDatestamp # <<>>
    THEN [tag |-> "itemResult",
          attrs |-> [identifier |-> escapeXml(itemId),
                     sequenceIndex |-> IntToStr(index + 1),
                     datestamp |-> escapeXml(testResultDatestamp),
                     sessionStatus |-> <<"final">>]]
    ELSE [tag |-> "itemResult",
          attrs |-> [identifier |-> escapeXml(itemId),
                     sequenceIndex |-> IntToStr(index + 1),
                     sessionStatus |-> <<"final">>]]

\* buildAssessmentResultXml with the datestamp on the testResult alone.
buildAssessmentResultXml_TestResultOnly(row, testResultIdentifier, testResultDatestamp, ids) ==
    [context |->
        [sourcedId |-> escapeXml(row.candidateNumber),
         sessionIdentifiers |->
            <<SessionIdentifier(<<"candidateName">>, row.candidateName)>>
            \o (IF row.candidateId # <<>>
                THEN <<SessionIdentifier(<<"candidateId">>, row.candidateId)>>
                ELSE <<>>)
            \o (IF row.candidateAccount # <<>>
                THEN <<SessionIdentifier(<<"candidateAccount">>, row.candidateAccount)>>
                ELSE <<>>)],
     testResult |->
        IF testResultDatestamp # <<>>
        THEN [identifier |-> escapeXml(testResultIdentifier),
              datestamp |-> escapeXml(testResultDatestamp)]
        ELSE [identifier |-> escapeXml(testResultIdentifier)],
     itemResults |->
        [k \in 1..Len(ids) |-> ItemResult(ids[k], k - 1, <<>>)]]

\* buildAssessmentResultXml(options): the document as its elements.
buildAssessmentResultXml(row, testResultIdentifier, testResultDatestamp, ids) ==
    [context |->
        [sourcedId |-> escapeXml(row.candidateNumber),
         sessionIdentifiers |->
            <<SessionIdentifier(<<"candidateName">>, row.candidateName)>>
            \o (IF row.candidateId # <<>>
                THEN <<SessionIdentifier(<<"candidateId">>, row.candidateId)>>
                ELSE <<>>)
            \o (IF row.candidateAccount # <<>>
                THEN <<SessionIdentifier(<<"candidateAccount">>, row.candidateAccount)>>
                ELSE <<>>)],
     testResult |->
        IF testResultDatestamp # <<>>
        THEN [identifier |-> escapeXml(testResultIdentifier),
              datestamp |-> escapeXml(testResultDatestamp)]
        ELSE [identifier |-> escapeXml(testResultIdentifier)],
     itemResults |->
        [k \in 1..Len(ids) |-> ItemResult(ids[k], k - 1, testResultDatestamp)]]

-----------------------------------------------------------------------------
(* The command line.                                                        *)

\* A nullable string: Null, or Some(v) for the string v.
Null == <<>>
Some(v) == <<v>>
IsNull(o) == o = <<>>
\* !o for a nullable string: null and the empty string are falsy.
Falsy(o) == o = <<>> \/ o[1] = <<>>

HELP_TEXT ==
    << <<"roster-to-qti-results">>,
       <<>>,
       <<"Usage:">>,
       <<"  roster-to-qti-results --roster <path> --assessment-test <path> \\">>,
       <<"    [options]">>,
       <<>>,
       <<"Required options:">>,
       <<"  --roster <path>           Roster CSV path (use '-' to read from stdin)">>,
       <<"  --assessment-test <path>  QTI assessment test XML">>,
       <<>>,
       <<"Optional options:">>,
       <<"  --output <dir>            Output directory (default: <roster-dir>/qti-results)">>,
       <<"  --test-result-identifier <value>  testResult identifier (default: assessment-test)">>,
       <<"  --test-result-datestamp <value>   ISO 8601 datetime or 'now'">>,
       <<"  --dry-run                 Validate and print output plan without writing files">>,
       <<"  --json                    Emit machine-readable summary to stdout">>,
       <<"  --force, --yes            Overwrite existing output files">>,
       <<"  --quiet                   Suppress non-error logs">>,
       <<"  --verbose                 Verbose logs">>,
       <<"  --version, -V             Show version">>,
       <<"  --help, -h                Show help">> >>

\* The args object parseArgs starts from.
InitialArgs ==
    [roster |-> Null, assessmentTest |-> Null, testResultIdentifier |-> Null,
     testResultDatestamp |-> Null, outputDir |-> Null, dryRun |-> FALSE,
     json |-> FALSE, force |-> FALSE, quiet |-> FALSE, verbose |-> FALSE,
     help |-> FALSE, version |-> FALSE]

\* argv[i + 1] ?? dflt
NextArg(av, i, dflt) == IF i + 1 <= Len(av) THEN Some(av[i + 1]) ELSE dflt

\* The for loop of parseArgs from position i on, a being args so far.
RECURSIVE ParseArgsLoop(_, _, _)
ParseArgsLoop(av, i, a) ==
    IF i > Len(av) THEN Ok(a)
    ELSE LET arg == av[i] IN
    IF arg = <<"--help">> \/ arg = <<"-h">>
    THEN ParseArgsLoop(av, i + 1, [a EXCEPT !.help = TRUE])
    ELSE IF arg = <<"--version">> \/ arg = <<"-V">>
    THEN ParseArgsLoop(av, i + 1, [a EXCEPT !.version = TRUE])
    ELSE IF arg = <<"--roster">>
    THEN ParseArgsLoop(av, i + 2, [a EXCEPT !.roster = NextArg(av, i, Null)])
    ELSE IF arg = <<"--assessment-test">>
    THEN ParseArgsLoop(av, i + 2, [a EXCEPT !.assessmentTest = NextArg(av, i, Null)])
    ELSE IF arg = <<"--test-result-identifier">>
    THEN ParseArgsLoop(av, i + 2,
                       [a EXCEPT !.testResultIdentifier = NextArg(av, i, Null)])
    ELSE IF arg = <<"--test-result-datestamp">>
    THEN ParseArgsLoop(av, i + 2,
                       [a EXCEPT !.testResultDatestamp = NextArg(av, i, Null)])
    ELSE IF arg = <<"--output">>
    THEN ParseArgsLoop(av, i + 2, [a EXCEPT !.outputDir = NextArg(av, i, Some(<<>>))])
    ELSE IF arg = <<"--dry-run">>
    THEN ParseArgsLoop(av, i + 1, [a EXCEPT !.dryRun = TRUE])
    ELSE IF arg = <<"--json">>
    THEN ParseArgsLoop(av, i + 1, [a EXCEPT !.json = TRUE])
    ELSE IF arg = <<"--force">> \/ arg = <<"--yes">>
    THEN ParseArgsLoop(av, i + 1, [a EXCEPT !.force = TRUE])
    ELSE IF arg = <<"--quiet">>
    THEN ParseArgsLoop(av, i + 1, [a EXCEPT !.quiet = TRUE])
    ELSE IF arg = <<"--verbose">>
    THEN ParseArgsLoop(av, i + 1, [a EXCEPT !.verbose = TRUE])
    ELSE Err(<<"Unknown argument: ">> \o arg)

parseArgs(av) == ParseArgsLoop(av, 1, InitialArgs)

\* The strings Date.parse turns into a number.
ParsableDates == {<<"2026-01-27T10:00:00+09:00">>, <<"27 January 2026">>}

\* The values new Date().toISOString() may give during a run.
Clock == {<<"2026-11-02T08:00:00.000Z">>, <<"2026-11-02T08:00:01.000Z">>}

\* resolveEndAt without the Date.parse check: any text passes as a datestamp.
resolveEndAt_AcceptsAnything(raw, now) == Ok(IF raw = <<"now">> THEN now ELSE raw)

\* resolveEndAt(raw) when the clock reads now.
resolveEndAt(raw, now) ==
    IF raw = <<"now">> THEN Ok(now)
    ELSE IF raw \notin ParsableDates
    THEN Err(<<"--test-result-datestamp must be an ISO 8601 datetime or 'now'.">>)
    ELSE Ok(raw)

\* args.testResultIdentifier || "assessment-test"
TestResultIdentifier(a) ==
    IF Falsy(a.testResultIdentifier) THEN <<"assessment-test">>
    ELSE a.testResultIdentifier[1]

-----------------------------------------------------------------------------
(* The file system below the output directory.  files holds one record per *)
(* existing file; a file in a subdirectory can only be written when that   *)
(* subdirectory is in dirs.                                                *)

OldContent ==
    [context |-> [sourcedId |-> <<"old">>, sessionIdentifiers |-> <<>>],
     testResult |-> [identifier |-> <<"old">>],
     itemResults |-> <<>>]

\* fs.existsSync(path) for a planned path
FileExists(f, path) == \E e \in f.files : e.path = path

ContentAt(f, path) == (CHOOSE e \in f.files : e.path = path).content

\* Whether the directory a path lies in exists once outputDir does: outputDir
\* itself, one of its ancestors, or an existing subdirectory.
ParentExists(f, path) ==
    LET parent == SubSeq(path, 1, Len(path) - 1) IN
    \/ \A i \in 1..Len(parent) : parent[i] = <<".", ".">>
    \/ parent \in f.dirs

\* The file system after fs.writeFileSync(path, xml, "utf8") succeeded.
WriteFile(f, path, xml) ==
    [f EXCEPT !.files = {e \in f.files : e.path # path}
                        \cup {[path |-> path, content |-> xml]}]

\* new Map(rows.map((row) => [row.resultId, row])).get(resultId): the last
\* row with that resultId, none when there is no such row.
RowByResult(rs, resultId) ==
    LET hits == {i \in 1..Len(rs) : rs[i].resultId = resultId} IN
    IF hits = {} THEN <<>>
    ELSE <<rs[CHOOSE i \in hits : \A j \in hits : j <= i]>>

\* FirstExisting as a check of the first plan entry alone.
FirstExisting_HeadOnly(f, outs) ==
    IF outs # <<>> /\ FileExists(f, outs[1].path) THEN <<outs[1].path>> ELSE <<>>

\* The first planned path ensureWritable finds existing, none when there is
\* none.
FirstExisting(f, outs) ==
    LET hits == {i \in 1..Len(outs) : FileExists(f, outs[i].path)} IN
    IF hits = {} THEN <<>>
    ELSE <<outs[CHOOSE i \in hits : \A j \in hits : i <= j].path>>

\* A path as text, for messages.
RECURSIVE PathText(_)
PathText(path) ==
    IF path = <<>> THEN <<>>
    ELSE <<"/">> \o Head(path) \o PathText(Tail(path))

\* What process.stdout receives: a text, or a JSON summary.
Text(lines) == [kind |-> "text", lines |-> lines, mode |-> "", outputs |-> <<>>]
Json(mode, outs) == [kind |-> "json", lines |-> <<>>, mode |-> mode, outputs |-> outs]

-----------------------------------------------------------------------------
(* The run.                                                                 *)

\* Throw with the error's stack printed after its message.
Throw_WithStack(message) ==
    /\ stderr' = stderr \o <<message, <<"    at main">> >>
    /\ exitCode' = <<1>>
    /\ pc' = "done"

\* The top-level catch: the message goes to stderr and the process exits 1.
Throw(message) ==
    /\ stderr' = Append(stderr, message)
    /\ exitCode' = <<1>>
    /\ pc' = "done"

\* main returns and the process ends with status 0.
Return ==
    /\ exitCode' = <<0>>
    /\ pc' = "done"

\* logInfo(message, args)
logInfo(message) ==
    stderr' = IF args.quiet THEN stderr ELSE Append(stderr, message)

\* const args = parseArgs(process.argv.slice(2))
ParseArgs ==
    /\ pc = "start"
    /\ LET r == parseArgs(argv) IN
       IF r.ok
       THEN /\ args' = r.value
            /\ pc' = "main"
            /\ UNCHANGED <<stderr, exitCode>>
       ELSE /\ Throw(r.error)
            /\ UNCHANGED args
    /\ UNCHANGED <<fsAtStart, argv, fs, roster, testDoc, rows, itemIds, datestamp, outputs,
                   written, stdout>>

\* main from the help check to the resolution of the output directory.
ResolveOptions ==
    /\ pc = "main"
    /\ IF args.help
       THEN /\ stdout' = Append(stdout, Text(HELP_TEXT))
            /\ Return
            /\ UNCHANGED <<stderr, datestamp>>
       ELSE IF args.version
       THEN /\ stdout' = Append(stdout, Text(<< <<"0.0.0">> >>))
            /\ Return
            /\ UNCHANGED <<stderr, datestamp>>
       ELSE IF Falsy(args.roster) \/ Falsy(args.assessmentTest)
       THEN /\ stderr' = stderr \o << <<"Missing required arguments.">>, <<>> >>
                                \o HELP_TEXT
            /\ exitCode' = <<1>>
            /\ pc' = "done"
            /\ UNCHANGED <<stdout, datestamp>>
       ELSE IF ~IsNull(args.outputDir) /\ Falsy(args.outputDir)
       THEN /\ Throw(<<"--output must be a non-empty path.">>)
            /\ UNCHANGED <<stdout, datestamp>>
       ELSE IF Falsy(args.testResultDatestamp)
       THEN /\ datestamp' = <<>>
            /\ pc' = "readRoster"
            /\ UNCHANGED <<stdout, stderr, exitCode>>
       ELSE \E now \in Clock :
            LET r == resolveEndAt(args.testResultDatestamp[1], now) IN
            IF r.ok
            THEN /\ datestamp' = r.value
                 /\ pc' = "readRoster"
                 /\ UNCHANGED <<stdout, stderr, exitCode>>
            ELSE /\ Throw(r.error)
                 /\ UNCHANGED <<stdout, datestamp>>
    /\ UNCHANGED <<fsAtStart, argv, args, fs, roster, testDoc, rows, itemIds, outputs, written>>

\* const rows = readRosterCsv(args.roster), the roster being one of files.
ReadRoster(files) ==
    /\ pc = "readRoster"
    /\ \E file \in files :
        /\ roster' = file
        /\ LET r == readRosterCsv(file) IN
           IF r.ok
           THEN /\ rows' = r.value
                /\ pc' = "readItems"
                /\ UNCHANGED <<stderr, exitCode>>
           ELSE /\ Throw(r.error)
                /\ UNCHANGED rows
    /\ UNCHANGED <<fsAtStart, argv, args, fs, testDoc, itemIds, datestamp, outputs, written,
                   stdout>>

\* const itemIds = readAssessmentTestItemIds(args.assessmentTest), the
\* assessment test being one of files.
ReadItems(files) ==
    /\ pc = "readItems"
    /\ \E file \in files :
        /\ testDoc' = file
        /\ LET r == readAssessmentTestItemIds(file) IN
           IF r.ok
           THEN /\ itemIds' = r.value
                /\ pc' = "plan"
                /\ UNCHANGED <<stderr, exitCode>>
           ELSE /\ Throw(r.error)
                /\ UNCHANGED itemIds
    /\ UNCHANGED <<fsAtStart, argv, args, fs, roster, rows, datestamp, outputs, written, stdout>>

\* BuildPlan without the dry-run branch of main.
BuildPlan_IgnoresDryRun ==
    /\ pc = "plan"
    /\ outputs' = buildOutputPlan(rows)
    /\ pc' = "ensureWritable"
    /\ UNCHANGED <<fsAtStart, argv, args, fs, roster, testDoc, rows, itemIds, datestamp,
                   written, stdout, stderr, exitCode>>

\* const outputs = buildOutputPlan(outputDir, rows)
BuildPlan ==
    /\ pc = "plan"
    /\ outputs' = buildOutputPlan(rows)
    /\ pc' = IF args.dryRun THEN "dryRun" ELSE "ensureWritable"
    /\ UNCHANGED <<fsAtStart, argv, args, fs, roster, testDoc, rows, itemIds, datestamp,
                   written, stdout, stderr, exitCode>>

\* if (args.dryRun) { ... return; }
DryRun ==
    /\ pc = "dryRun"
    /\ IF args.json
       THEN /\ stdout' = Append(stdout, Json("dry-run", outputs))
            /\ UNCHANGED stderr
       ELSE /\ logInfo(<<"Dry run: ">> \o IntToStr(Len(outputs))
                       \o <<" file(s) would be written to outputDir">>)
            /\ UNCHANGED stdout
    /\ Return
    /\ UNCHANGED <<fsAtStart, argv, args, fs, roster, testDoc, rows, itemIds, datestamp,
                   outputs, written>>

\* ensureWritable(outputDir, outputs, args.force)
EnsureWritable ==
    /\ pc = "ensureWritable"
    /\ IF ~fs.dirExists
       THEN /\ fs' = [fs EXCEPT !.dirExists = TRUE]
            /\ pc' = "write"
            /\ UNCHANGED <<stderr, exitCode>>
       ELSE LET hit == FirstExisting(fs, outputs) IN
            IF hit # <<>> /\ ~args.force
            THEN /\ Throw(<<"Output file already exists: ">> \o PathText(hit[1])
                          \o <<" (use --force to overwrite)">>)
                 /\ UNCHANGED fs
            ELSE /\ pc' = "write"
                 /\ UNCHANGED <<fs, stderr, exitCode>>
    /\ UNCHANGED <<fsAtStart, argv, args, roster, testDoc, rows, itemIds, datestamp, outputs,
                   written, stdout>>

\* WriteOutput removing the files already written when a write fails.
WriteOutput_RollsBack ==
    /\ pc = "write"
    /\ written < Len(outputs)
    /\ LET output == outputs[written + 1]
           row == RowByResult(rows, output.resultId)
       IN  IF row = <<>>
           THEN /\ Throw(<<"Missing roster row for resultId: ">> \o output.resultId)
                /\ UNCHANGED <<fs, written>>
           ELSE IF ~ParentExists(fs, output.path)
           THEN /\ Throw(<<"ENOENT: no such file or directory, open ">>
                         \o PathText(output.path))
                /\ fs' = [fs EXCEPT !.files = fsAtStart.files]
                /\ UNCHANGED written
           ELSE /\ fs' = WriteFile(fs, output.path,
                                   buildAssessmentResultXml(row[1],
                                       TestResultIdentifier(args), datestamp, itemIds))
                /\ written' = written + 1
                /\ UNCHANGED <<pc, stderr, exitCode>>
    /\ UNCHANGED <<fsAtStart, argv, args, roster, testDoc, rows, itemIds, datestamp, outputs,
                   stdout>>

\* One turn of outputs.forEach in writeOutputs.
WriteOutput ==
    /\ pc = "write"
    /\ written < Len(outputs)
    /\ LET output == outputs[written + 1]
           row == RowByResult(rows, output.resultId)
       IN  IF row = <<>>
           THEN /\ Throw(<<"Missing roster row for resultId: ">> \o output.resultId)
                /\ UNCHANGED <<fs, written>>
           ELSE IF ~ParentExists(fs, output.path)
           THEN /\ Throw(<<"ENOENT: no such file or directory, open ">>
                         \o PathText(output.path))
                /\ UNCHANGED <<fs, written>>
           ELSE /\ fs' = WriteFile(fs, output.path,
                                   buildAssessmentResultXml(row[1],
                                       TestResultIdentifier(args), datestamp, itemIds))
                /\ written' = written + 1
                /\ UNCHANGED <<pc, stderr, exitCode>>
    /\ UNCHANGED <<fsAtStart, argv, args, roster, testDoc, rows, itemIds, datestamp, outputs,
                   stdout>>

\* EmitSummary logging its summary whether or not --verbose was given.
EmitSummary_LogsByDefault ==
    /\ pc = "write"
    /\ written = Len(outputs)
    /\ IF args.json
       THEN /\ stdout' = Append(stdout, Json("write", outputs))
            /\ UNCHANGED stderr
       ELSE /\ logInfo(<<"Wrote ">> \o IntToStr(Len(outputs))
                       \o <<" file(s) to outputDir">>)
            /\ UNCHANGED stdout
    /\ Return
    /\ UNCHANGED <<fsAtStart, argv, args, fs, roster, testDoc, rows, itemIds, datestamp,
                   outputs, written>>

\* main after writeOutputs returned: the summary.
EmitSummary ==
    /\ pc = "write"
    /\ written = Len(outputs)
    /\ IF args.json
       THEN /\ stdout' = Append(stdout, Json("write", outputs))
            /\ UNCHANGED stderr
       ELSE IF args.verbose
       THEN /\ logInfo(<<"Wrote ">> \o IntToStr(Len(outputs))
                       \o <<" file(s) to outputDir">>)
            /\ UNCHANGED stdout
       ELSE UNCHANGED <<stdout, stderr>>
    /\ Return
    /\ UNCHANGED <<fsAtStart, argv, args, fs, roster, testDoc, rows, itemIds, datestamp,
                   outputs, written>>

-----------------------------------------------------------------------------
(* The inputs a run is given.                                               *)

SeqsUpTo(S, n) == UNION {[1..k -> S] : k \in 0..n}

\* A roster line with the given candidate_number, candidate_name and
\* result_id cells, the two optional candidate columns left empty.
Line(candidateNumber, candidateName, resultId) ==
    <<candidateNumber, candidateName, <<>>, <<>>, resultId>>

UpAndX(first) == <<first, "/", ".", ".", "/", "x">>

CandidateNumbers == {<<>>, <<"a">>, <<"1">>, <<"2">>}
CandidateNames == {<<>>, <<"A">>}
ResultIds == {<<>>, <<"2">>, <<" ", "2", " ">>, UpAndX("1"), UpAndX("2")}

\* Every line a roster of the reader's specification may hold.
RosterLines ==
    {<<>>} \cup {Line(n, c, r) : n \in CandidateNumbers, c \in CandidateNames,
                                 r \in ResultIds}

RosterFiles == {NoFile} \cup {FileOf(l) : l \in SeqsUpTo(RosterLines, MaxRows)}

\* The lines of the rosters whole runs are given.
RunLines ==
    { <<>>,
      Line(<<"a">>, <<"A">>, <<>>),
      Line(<<"1">>, <<>>, <<>>),
      Line(<<"1">>, <<"A">>, <<>>),
      Line(<<"2">>, <<"B", "&">>, <<>>),
      Line(<<"1">>, <<"A">>, UpAndX("1")),
      Line(<<"2">>, <<"B", "&">>, UpAndX("2")) }

RunRosterFiles == {NoFile} \cup {FileOf(l) : l \in SeqsUpTo(RunLines, MaxRows)}

ItemRef(identifier) == Element(ItemRefTag, TRUE, identifier)
ItemRefWithoutIdentifier == Element(ItemRefTag, FALSE, <<>>)
Section == Element("qti-assessment-section", TRUE, <<"S1">>)

Item1 == <<"item-001">>
Item2 == <<"item-002">>
\* An identifier with a character escapeXml rewrites.
ItemAmp == <<"Q", "&", "1">>

\* Every element an assessment test of the extractor's specification may hold.
TestElements ==
    {ItemRef(Item1), ItemRef(Item2), ItemRef(<<>>), ItemRefWithoutIdentifier, Section}

TestFiles == {NoFile} \cup {FileOf(d) : d \in SeqsUpTo(TestElements, MaxItems)}

\* The assessment tests whole runs are given.
RunTestFiles ==
    { NoFile,
      FileOf(<<>>),
      FileOf(<<Section, ItemRef(Item1), ItemRef(Item2)>>),
      FileOf(<<ItemRef(Item2)>>),
      FileOf(<<ItemRef(ItemAmp), ItemRef(Item1)>>),
      FileOf(<<ItemRef(Item1), ItemRef(Item1)>>),
      FileOf(<<ItemRef(<<>>), ItemRef(Item1)>>) }

RosterOption == << <<"--roster">>, <<"roster.csv">> >>
TestOption == << <<"--assessment-test">>, <<"assessment-test.qti.xml">> >>

OutputOption(kind) ==
    CASE kind = "given" -> << <<"--output">>, <<"out">> >>
      [] kind = "empty" -> << <<"--output">>, <<>> >>
      [] OTHER -> <<>>

DatestampOption(kind) ==
    CASE kind = "iso" -> << <<"--test-result-datestamp">>, <<"2026-01-27T10:00:00+09:00">> >>
      [] kind = "legacy" -> << <<"--test-result-datestamp">>, <<"27 January 2026">> >>
      [] kind = "now" -> << <<"--test-result-datestamp">>, <<"now">> >>
      [] kind = "bad" -> << <<"--test-result-datestamp">>, <<"yesterday">> >>
      [] OTHER -> <<>>

FlagOrder ==
    << <<"--dry-run">>, <<"--json">>, <<"--force">>, <<"--yes">>, <<"--quiet">>,
       <<"--verbose">>, <<"--help">>, <<"--version">>, <<"--bogus">> >>

IsFlagOf(flags, f) == f \in flags

\* The command line of an invocation c: which options it gives.
ArgvOf(c) ==
    (IF c.roster THEN RosterOption ELSE <<>>)
    \o (IF c.test THEN TestOption ELSE <<>>)
    \o OutputOption(c.output)
    \o DatestampOption(c.date)
    \o SelectSeq(FlagOrder, LAMBDA f : f \in c.flags)

\* Invocations whose options resolve: every combination of the mode flags,
\* and the datestamp and output directory variants.
WellFormedInvocations ==
    [roster : {TRUE}, test : {TRUE}, output : {"given"}, date : {"none"},
     flags : SUBSET {<<"--dry-run">>, <<"--json">>, <<"--force">>, <<"--quiet">>,
                     <<"--verbose">>}]
    \cup
    [roster : {TRUE}, test : {TRUE}, output : {"none", "given"},
     date : {"iso", "legacy", "now"},
     flags : {{}, {<<"--yes">>}, {<<"--dry-run">>}}]

\* Invocations with any combination of the faults of the option checks.
FaultyInvocations ==
    [roster : BOOLEAN, test : BOOLEAN, output : {"given", "empty"},
     date : {"none", "bad"},
     flags : SUBSET {<<"--help">>, <<"--version">>, <<"--bogus">>, <<"--dry-run">>}]

Argvs == {ArgvOf(c) : c \in WellFormedInvocations \cup FaultyInvocations}

Planned1 == <<FileName(<<"1">>)>>
Planned2 == <<FileName(<<"2">>)>>

\* The output directory before the run: missing, or there with some of the
\* files a run may plan already in it.
MissingDirectory == [dirExists |-> FALSE, dirs |-> {}, files |-> {}]

InitialFileSystems ==
    {MissingDirectory}
    \cup {[dirExists |-> TRUE, dirs |-> {},
           files |-> {[path |-> p, content |-> OldContent] : p \in ps}] :
          ps \in SUBSET {Planned1, Planned2}}

-----------------------------------------------------------------------------
(* Whole runs.                                                              *)

Init ==
    /\ argv \in Argvs
    /\ args = InitialArgs
    /\ pc = "start"
    /\ fs \in InitialFileSystems
    /\ fsAtStart = fs
    /\ roster = NoFile
    /\ testDoc = NoFile
    /\ rows = <<>>
    /\ itemIds = <<>>
    /\ datestamp = <<>>
    /\ outputs = <<>>
    /\ written = 0
    /\ stdout = <<>>
    /\ stderr = <<>>
    /\ exitCode = Running

Next ==
    \/ ParseArgs
    \/ ResolveOptions
    \/ ReadRoster(RunRosterFiles)
    \/ ReadItems(RunTestFiles)
    \/ BuildPlan
    \/ DryRun
    \/ EnsureWritable
    \/ WriteOutput
    \/ EmitSummary

Spec == Init /\ [][Next]_vars

-----------------------------------------------------------------------------
(* The roster reader and the planner on every roster of RosterFiles: runs  *)
(* of the plain invocation, from the call of readRosterCsv to the plan.    *)

PlainArgs == parseArgs(RosterOption \o TestOption \o OutputOption("given")).value

PlainTestFile == FileOf(<<ItemRef(Item1), ItemRef(Item2)>>)

InitRoster ==
    /\ argv = RosterOption \o TestOption \o OutputOption("given")
    /\ args = PlainArgs
    /\ pc = "readRoster"
    /\ fs = MissingDirectory
    /\ fsAtStart = fs
    /\ roster = NoFile
    /\ testDoc = NoFile
    /\ rows = <<>>
    /\ itemIds = <<>>
    /\ datestamp = <<>>
    /\ outputs = <<>>
    /\ written = 0
    /\ stdout = <<>>
    /\ stderr = <<>>
    /\ exitCode = Running

NextRoster ==
    \/ ReadRoster(RosterFiles)
    \/ ReadItems({PlainTestFile})
    \/ BuildPlan

SpecRoster == InitRoster /\ [][NextRoster]_vars

-----------------------------------------------------------------------------
(* The item extractor on every assessment test of TestFiles: runs of the   *)
(* plain invocation on a one-row roster, at the call of                     *)
(* readAssessmentTestItemIds.                                               *)

PlainRosterFile == FileOf(<<Line(<<"1">>, <<"A">>, <<>>)>>)

InitItems ==
    /\ argv = RosterOption \o TestOption \o OutputOption("given")
    /\ args = PlainArgs
    /\ pc = "readItems"
    /\ fs = MissingDirectory
    /\ fsAtStart = fs
    /\ roster = PlainRosterFile
    /\ testDoc = NoFile
    /\ rows = readRosterCsv(PlainRosterFile).value
    /\ itemIds = <<>>
    /\ datestamp = <<>>
    /\ outputs = <<>>
    /\ written = 0
    /\ stdout = <<>>
    /\ stderr = <<>>
    /\ exitCode = Running

NextItems == ReadItems(TestFiles)

SpecItems == InitItems /\ [][NextItems]_vars

-----------------------------------------------------------------------------
(* Whole runs on inputs that are all in place before the run starts: the   *)
(* command line, the roster file and the assessment test found at the two  *)
(* paths, and the output directory.  roster and testDoc hold the files on  *)
(* disk from the start; readRosterCsv and readAssessmentTestItemIds read   *)
(* those very files.  The rosters include a result_id with a "/" in it,    *)
(* whose planned file lies in a subdirectory nobody creates, so that       *)
(* fs.writeFileSync fails on it.                                            *)

InSubdirectory == <<"3", "/", "x">>

FaultLines ==
    { Line(<<"a">>, <<"A">>, <<>>),
      Line(<<"1">>, <<"A">>, <<>>),
      Line(<<"1">>, <<"A">>, UpAndX("1")),
      Line(<<"2">>, <<"B">>, UpAndX("2")),
      Line(<<"3">>, <<"C">>, InSubdirectory) }

FaultRosterFiles == {NoFile} \cup {FileOf(l) : l \in SeqsUpTo(FaultLines, MaxRows)}

FaultTestFiles ==
    { NoFile,
      FileOf(<<Section>>),
      FileOf(<<ItemRef(Item1), ItemRef(Item1)>>),
      FileOf(<<ItemRef(Item1), ItemRef(Item2)>>) }

\* Invocations whose options resolve, and invocations with any combination
\* of the faults of the option checks.
FaultArgvs ==
    {ArgvOf(c) : c \in
        [roster : {TRUE}, test : {TRUE}, output : {"given"}, date : {"none"},
         flags : SUBSET {<<"--dry-run">>, <<"--force">>}]
        \cup
        [roster : BOOLEAN, test : {TRUE}, output : {"given", "empty"},
         date : {"none", "bad"}, flags : SUBSET {<<"--bogus">>, <<"--help">>}]}

InitFaults ==
    /\ argv \in FaultArgvs
    /\ args = InitialArgs
    /\ pc = "start"
    /\ fs \in InitialFileSystems
    /\ fsAtStart = fs
    /\ roster \in FaultRosterFiles
    /\ testDoc \in FaultTestFiles
    /\ rows = <<>>
    /\ itemIds = <<>>
    /\ datestamp = <<>>
    /\ outputs = <<>>
    /\ written = 0
    /\ stdout = <<>>
    /\ stderr = <<>>
    /\ exitCode = Running

NextFaults ==
    \/ ParseArgs
    \/ ResolveOptions
    \/ ReadRoster({roster})
    \/ ReadItems({testDoc})
    \/ BuildPlan
    \/ DryRun
    \/ EnsureWritable
    \/ WriteOutput
    \/ EmitSummary

SpecFaults == InitFaults /\ [][NextFaults]_vars

-----------------------------------------------------------------------------
(* Vocabulary of the properties below, stated on the inputs themselves.    *)

Done == pc = "done"
Failed == pc = "done" /\ exitCode = <<1>>
Succeeded == pc = "done" /\ exitCode = <<0>>

\* The command line asks for the given flag.
FlagGiven(f) == \E i \in 1..Len(argv) : argv[i] = f

\* The run has computed its output plan.
Planned == outputs # <<>>

\* Some planned path was there before the run.
PlanConflicts == \E i \in 1..Len(outputs) : FileExists(fsAtStart, outputs[i].path)

\* C1: in a run without --dry-run and without --force/--yes whose output
\* directory existed and held at least one planned path, nothing is written
\* (the file system is as the run found it while and after ensureWritable
\* runs) and once ensureWritable is over the run has failed with exit status
\* 1, its only diagnostic naming the first planned path that exists.
C1_ConflictAbortsBeforeAnyWrite ==
    ( /\ Planned
      /\ ~FlagGiven(<<"--dry-run">>)
      /\ ~FlagGiven(<<"--force">>) /\ ~FlagGiven(<<"--yes">>)
      /\ fsAtStart.dirExists
      /\ PlanConflicts )
    => /\ fs = fsAtStart
       /\ written = 0
       /\ pc # "ensureWritable" =>
            /\ Failed
            /\ stdout = <<>>
            /\ \E i \in 1..Len(outputs) :
                /\ FileExists(fsAtStart, outputs[i].path)
                /\ \A j \in 1..(i - 1) : ~FileExists(fsAtStart, outputs[j].path)
                /\ stderr = << <<"Output file already exists: ">>
                               \o PathText(outputs[i].path)
                               \o <<" (use --force to overwrite)">> >>

\* C1 witness: a run has failed on a conflict at its second planned path, the
\* first planned path being free.
C1_Witness ==
    /\ Failed
    /\ Len(outputs) = 2
    /\ ~FlagGiven(<<"--force">>) /\ ~FlagGiven(<<"--yes">>)
    /\ ~FileExists(fsAtStart, outputs[1].path)
    /\ FileExists(fsAtStart, outputs[2].path)
    /\ fs = fsAtStart

\* C2: a run given --dry-run leaves the file system as it found it at every
\* point, and when it has read a valid roster and a valid assessment test it
\* ends with exit status 0.
C2_DryRunTouchesNothing ==
    FlagGiven(<<"--dry-run">>)
    => /\ fs = fsAtStart
       /\ written = 0
       /\ ( /\ Done
            /\ readRosterCsv(roster).ok
            /\ readAssessmentTestItemIds(testDoc).ok )
          => Succeeded

\* C2 witness: dry runs have ended with status 0 on a missing output
\* directory, or on one that already held a planned file.
C2_Witness ==
    /\ FlagGiven(<<"--dry-run">>)
    /\ Succeeded
    /\ Planned
    /\ PlanConflicts
    /\ fs = fsAtStart

C2_WitnessMissingDirectory ==
    /\ FlagGiven(<<"--dry-run">>)
    /\ Succeeded
    /\ Planned
    /\ ~fsAtStart.dirExists
    /\ ~fs.dirExists

\* The run has written its whole plan and ended with status 0.
WroteOutputs == Succeeded /\ Planned /\ ~FlagGiven(<<"--dry-run">>)

\* The document the renderer gives for the i-th row of the run.
RenderedFor(i) ==
    buildAssessmentResultXml(rows[i], TestResultIdentifier(args), datestamp, itemIds)

\* C3 (as claimed): after a successful non-dry run every roster record's
\* planned path holds the document rendered from that record, with the
\* record's candidate_number as sourcedId and its name as candidateName, and
\* the planned paths are as many files as there are records.
C3_EveryRecordHasItsOwnFile ==
    WroteOutputs
    => /\ Len(outputs) = Len(rows)
       /\ \A i \in 1..Len(rows) :
            /\ FileExists(fs, outputs[i].path)
            /\ ContentAt(fs, outputs[i].path) = RenderedFor(i)
            /\ ContentAt(fs, outputs[i].path).context.sourcedId
                   = escapeXml(rows[i].candidateNumber)
            /\ ContentAt(fs, outputs[i].path).context.sessionIdentifiers[1].attrs.identifier
                   = escapeXml(rows[i].candidateName)
       /\ Cardinality({outputs[i].path : i \in 1..Len(outputs)}) = Len(rows)

\* C4 (as claimed): in the plan of a roster that passed validation any two
\* entries have different paths.
C4_PlanPathsDistinct ==
    Planned
    => \A i, j \in 1..Len(outputs) : i # j => outputs[i].path # outputs[j].path

\* The records of a roster file: its lines that are not empty.
RecordsOf(file) == SelectSeq(file.lines, LAMBDA l : l # <<>>)

\* The cells of a record, trimmed.
NumberOf(line) == Trim(line[1])
NameOf(line) == Trim(line[2])
\* The resultId of a record as the specification defines it.
ClaimedResultId(line) == IF Trim(line[5]) # <<>> THEN Trim(line[5]) ELSE Trim(line[1])

ContainsDigit(s) == \E i \in 1..Len(s) : s[i] \in Digits

\* C5 (as claimed): the plan of a valid roster has one entry per record, in
\* row order, and the path of entry i is the file
\* assessmentResult-<resultId_i>.xml of the output directory.
C5_PlanFollowsRoster ==
    Planned
    => LET recs == RecordsOf(roster) IN
       /\ Len(outputs) = Len(recs)
       /\ \A i \in 1..Len(recs) :
            /\ outputs[i].resultId = ClaimedResultId(recs[i])
            /\ outputs[i].path
                 = << <<"assessmentResult-">> \o ClaimedResultId(recs[i]) \o <<".xml">> >>

\* The roster read holds an empty line.
HasBlankRow(file) == \E i \in 1..Len(file.lines) : file.lines[i] = <<>>

\* C6 (as claimed): once a roster holding a blank row has been read, the
\* reader has failed: the run is over with exit status 1 and without rows.
C6_BlankRowRejected ==
    (roster.exists /\ HasBlankRow(roster)) => (Failed /\ rows = <<>>)

\* The summary line of a non-dry run.
SummaryLine == <<"Wrote ">> \o IntToStr(Len(outputs)) \o <<" file(s) to outputDir">>

\* C7 (as claimed): a successful non-dry run has written the JSON summary to
\* stdout when --json was given, and the summary line to stderr when it was
\* not, whatever the other flags.
C7_SummaryByDefault ==
    WroteOutputs
    => IF FlagGiven(<<"--json">>)
       THEN stdout = <<Json("write", outputs)>>
       ELSE stderr = <<SummaryLine>>

\* C7 (amended): a successful non-dry run given --json has written the JSON
\* summary to stdout and nothing to stderr; one not given --json has written
\* nothing to stdout, and the summary line to stderr exactly when --verbose
\* was given and --quiet was not (nothing otherwise).
C7_SummaryOnlyWhenVerbose ==
    WroteOutputs
    => IF FlagGiven(<<"--json">>)
       THEN stdout = <<Json("write", outputs)>> /\ stderr = <<>>
       ELSE /\ stdout = <<>>
            /\ stderr = IF FlagGiven(<<"--verbose">>) /\ ~FlagGiven(<<"--quiet">>)
                        THEN <<SummaryLine>>
                        ELSE <<>>

\* C7 witness: a successful non-dry run without --json has logged its
\* summary line.
C7_Witness ==
    /\ WroteOutputs
    /\ ~FlagGiven(<<"--json">>)
    /\ FlagGiven(<<"--verbose">>)
    /\ stderr = <<SummaryLine>>

\* An item reference whose identifier attribute is empty.
EmptyItemRef(e) == e.tag = ItemRefTag /\ e.hasIdentifier /\ e.identifier = <<>>

\* Two item references of the document carry the same identifier.
RepeatedItemRef(doc) ==
    \E i, j \in 1..Len(doc) :
        /\ i < j
        /\ doc[i].tag = ItemRefTag /\ doc[i].hasIdentifier
        /\ doc[j].tag = ItemRefTag /\ doc[j].hasIdentifier
        /\ doc[i].identifier = doc[j].identifier

\* C8 (as claimed): once an assessment test holding an item reference with an
\* empty identifier, or two item references with the same identifier, has
\* been read, the extractor has failed and returned no sequence.
C8_EmptyOrRepeatedItemFails ==
    ( /\ testDoc.exists
      /\ \/ \E i \in 1..Len(testDoc.lines) : EmptyItemRef(testDoc.lines[i])
         \/ RepeatedItemRef(testDoc.lines) )
    => (Failed /\ itemIds = <<>>)

\* A record whose candidate_number is not empty and has no digit.
Digitless(line) == NumberOf(line) # <<>> /\ ~ContainsDigit(NumberOf(line))

\* Record k of recs passes the checks made on one record alone.
FieldsValid(recs, k) ==
    /\ NumberOf(recs[k]) # <<>>
    /\ ContainsDigit(NumberOf(recs[k]))
    /\ NameOf(recs[k]) # <<>>

\* Record k has a resultId, and it is the resultId of an earlier record.
RepeatsResultId(recs, k) ==
    /\ ClaimedResultId(recs[k]) # <<>>
    /\ \E j \in 1..(k - 1) : ClaimedResultId(recs[j]) = ClaimedResultId(recs[k])

\* Every record before record k passes validation.
AllValidBefore(recs, k) ==
    \A j \in 1..(k - 1) : FieldsValid(recs, j) /\ ~RepeatsResultId(recs, j)

\* The first record of recs with property P (recs holds one).
FirstWith(recs, P(_, _)) ==
    CHOOSE k \in 1..Len(recs) : P(recs, k) /\ \A j \in 1..(k - 1) : ~P(recs, j)

IsDigitless(recs, k) == Digitless(recs[k])

DigitMessage == <<"candidate_number must include at least one digit">>

\* C9 (as claimed): once a roster holding a record with a non-empty,
\* digit-free candidate_number has been read, the run has failed with the
\* digit message as its diagnostic and the file system is untouched.
C9_DigitlessReportsDigitMessage ==
    (roster.exists /\ \E k \in 1..Len(RecordsOf(roster)) : Digitless(RecordsOf(roster)[k]))
    => /\ Failed
       /\ stderr = <<DigitMessage>>
       /\ fs = fsAtStart

\* C9 (amended): once such a roster has been read the run has failed with
\* exit status 1 and a single diagnostic, no file has been written for any
\* row, and the diagnostic is the digit message whenever every record before
\* the first digit-free one passes validation.
C9_DigitlessFailsTheRun ==
    (roster.exists /\ \E k \in 1..Len(RecordsOf(roster)) : Digitless(RecordsOf(roster)[k]))
    => LET recs == RecordsOf(roster)
           k == FirstWith(recs, IsDigitless)
       IN  /\ Failed
           /\ Len(stderr) = 1
           /\ stdout = <<>>
           /\ rows = <<>>
           /\ written = 0
           /\ fs = fsAtStart
           /\ AllValidBefore(recs, k) => stderr = <<DigitMessage>>

\* C9 witness: a run has failed with the digit message on a roster whose
\* second record is the digit-free one, the first being valid.
C9_Witness ==
    /\ roster.exists
    /\ Len(RecordsOf(roster)) = 2
    /\ FieldsValid(RecordsOf(roster), 1)
    /\ Digitless(RecordsOf(roster)[2])
    /\ Failed
    /\ stderr = <<DigitMessage>>
    /\ fs = fsAtStart

\* The rows returned have pairwise different resultIds.
RowsDistinct ==
    \A i, j \in 1..Len(rows) : i # j => rows[i].resultId # rows[j].resultId

HasRepeat(file) == \E k \in 1..Len(RecordsOf(file)) : RepeatsResultId(RecordsOf(file), k)

DuplicateMessage(recs, k) == <<"Duplicate result_id: ">> \o ClaimedResultId(recs[k])

\* C10 (as claimed): once a roster with a repeated resultId has been read,
\* the reader has failed naming the resultId of the first record that repeats
\* an earlier one; and the rows the reader returns never repeat a resultId.
C10_FirstDuplicateNamed ==
    /\ RowsDistinct
    /\ (roster.exists /\ HasRepeat(roster))
       => /\ Failed
          /\ stderr = <<DuplicateMessage(RecordsOf(roster),
                                         FirstWith(RecordsOf(roster), RepeatsResultId))>>

\* C10 (amended): the rows the reader returns never repeat a resultId, the
\* resultId of a row being its result_id or, when that is empty, its
\* candidate_number; a roster with a repeated resultId makes the reader fail;
\* and the failure names the resultId of the first repeating record whenever
\* every record before it passes validation and that record has a
\* candidate_number with a digit and a candidate_name.
C10_ResultIdsUnique ==
    /\ RowsDistinct
    /\ \A i \in 1..Len(rows) :
          /\ i <= Len(RecordsOf(roster))
          /\ rows[i].resultId = ClaimedResultId(RecordsOf(roster)[i])
    /\ (roster.exists /\ HasRepeat(roster))
       => LET recs == RecordsOf(roster)
              k == FirstWith(recs, RepeatsResultId)
          IN  /\ Failed
              /\ rows = <<>>
              /\ (AllValidBefore(recs, k) /\ FieldsValid(recs, k))
                 => stderr = <<DuplicateMessage(recs, k)>>

\* C10 witness: the reader has failed naming a resultId that is the defaulted
\* candidate_number of the first record and the explicit result_id of the
\* second.
C10_Witness ==
    /\ roster.exists
    /\ Len(RecordsOf(roster)) = 2
    /\ Trim(RecordsOf(roster)[1][5]) = <<>>
    /\ Trim(RecordsOf(roster)[2][5]) = NumberOf(RecordsOf(roster)[1])
    /\ NumberOf(RecordsOf(roster)[2]) # NumberOf(RecordsOf(roster)[1])
    /\ Failed
    /\ stderr = <<DuplicateMessage(RecordsOf(roster), 2)>>

-----------------------------------------------------------------------------
(* The faults of a run, read off its inputs: the command line, the files   *)
(* at the roster and assessment test paths, and the output directory as it *)
(* was before the run.                                                      *)

\* The value the command line gives to an option it carries.
OptionValue(o) == argv[(CHOOSE i \in 1..(Len(argv) - 1) : argv[i] = o) + 1]

UnknownArgument == FlagGiven(<<"--bogus">>)
RequiredMissing == ~FlagGiven(<<"--roster">>) \/ ~FlagGiven(<<"--assessment-test">>)
OutputEmpty == FlagGiven(<<"--output">>) /\ OptionValue(<<"--output">>) = <<>>
DatestampInvalid ==
    /\ FlagGiven(<<"--test-result-datestamp">>)
    /\ OptionValue(<<"--test-result-datestamp">>) = <<"yesterday">>

AsksHelp == FlagGiven(<<"--help">>) \/ FlagGiven(<<"--version">>)

\* Option resolution fails on the command line: an unknown argument, or, in
\* a run not asked for its help or version, another fault of the options.
OptionsFault ==
    \/ UnknownArgument
    \/ ~AsksHelp /\ (RequiredMissing \/ OutputEmpty \/ DatestampInvalid)

\* The first lines of the diagnostics of option resolution.
OptionDiagnostics ==
    { <<"Unknown argument: ">> \o <<"--bogus">>,
      <<"Missing required arguments.">>,
      <<"--output must be a non-empty path.">>,
      <<"--test-result-datestamp must be an ISO 8601 datetime or 'now'.">> }

RosterFault == ~readRosterCsv(roster).ok
ItemsFault == ~readAssessmentTestItemIds(testDoc).ok

\* The plan of the roster on disk (the roster passes validation).
PlanOfRoster == buildOutputPlan(readRosterCsv(roster).value)

Overwrites == FlagGiven(<<"--force">>) \/ FlagGiven(<<"--yes">>)

\* The planned paths that were there before the run, in a directory that was.
ConflictsAt ==
    {i \in 1..Len(PlanOfRoster) :
        fsAtStart.dirExists /\ FileExists(fsAtStart, PlanOfRoster[i].path)}

\* The plan entries whose file lies in a directory that does not exist.
UnwritableAt ==
    {i \in 1..Len(PlanOfRoster) : ~ParentExists(fsAtStart, PlanOfRoster[i].path)}

Least(S) == CHOOSE i \in S : \A j \in S : i <= j

\* The earliest step of the run that fails on these inputs, "none" when no
\* step does.
FirstFailingStep ==
    IF OptionsFault THEN "options"
    ELSE IF AsksHelp THEN "none"
    ELSE IF RosterFault THEN "roster"
    ELSE IF ItemsFault THEN "items"
    ELSE IF FlagGiven(<<"--dry-run">>) THEN "none"
    ELSE IF ConflictsAt # {} /\ ~Overwrites THEN "conflict"
    ELSE IF UnwritableAt # {} THEN "write"
    ELSE "none"

\* The faults the inputs hold, whether or not the run gets to them.
FaultsHeld ==
    {s \in {"options", "roster", "items", "conflict", "write"} :
        \/ s = "options" /\ OptionsFault
        \/ s = "roster" /\ RosterFault
        \/ s = "items" /\ ItemsFault
        \/ s = "conflict" /\ ~RosterFault /\ ConflictsAt # {} /\ ~Overwrites
        \/ s = "write" /\ ~RosterFault /\ UnwritableAt # {}}

\* C11: a run that is over has failed exactly when one of its steps fails on
\* its inputs, and then its diagnostic is the error of the earliest failing
\* step in the order option resolution, roster reading, item extraction,
\* conflict check, writing, and no later step has left a trace: nothing is
\* read after a failed option resolution, no items are extracted after a
\* failed roster, no plan is computed and the output directory is as it was
\* after a failed extraction, and nothing is written after a conflict.
C11_EarliestFailingStepReported ==
    Done =>
      /\ Failed <=> FirstFailingStep # "none"
      /\ FirstFailingStep = "options" =>
            /\ stderr # <<>> /\ stderr[1] \in OptionDiagnostics
            /\ rows = <<>> /\ itemIds = <<>> /\ outputs = <<>>
            /\ fs = fsAtStart
      /\ FirstFailingStep = "roster" =>
            /\ stderr = <<readRosterCsv(roster).error>>
            /\ rows = <<>> /\ itemIds = <<>> /\ outputs = <<>>
            /\ fs = fsAtStart
      /\ FirstFailingStep = "items" =>
            /\ stderr = <<readAssessmentTestItemIds(testDoc).error>>
            /\ itemIds = <<>> /\ outputs = <<>>
            /\ fs = fsAtStart
      /\ FirstFailingStep = "conflict" =>
            /\ stderr = << <<"Output file already exists: ">>
                           \o PathText(PlanOfRoster[Least(ConflictsAt)].path)
                           \o <<" (use --force to overwrite)">> >>
            /\ written = 0
            /\ fs = fsAtStart
      /\ FirstFailingStep = "write" =>
            /\ stderr = << <<"ENOENT: no such file or directory, open ">>
                           \o PathText(PlanOfRoster[Least(UnwritableAt)].path) >>
            /\ written = Least(UnwritableAt) - 1

\* C11 witness: a run has failed on an invalid roster while the assessment
\* test at its path holds no valid item references; it reported the roster
\* error alone and the output directory, missing before the run, is still
\* missing.
C11_Witness ==
    /\ Failed
    /\ ~OptionsFault
    /\ roster.exists /\ RosterFault
    /\ testDoc.exists /\ ItemsFault
    /\ ~fsAtStart.dirExists
    /\ stderr = <<readRosterCsv(roster).error>>
    /\ fs = fsAtStart

\* A run has failed on its item extraction although a planned file was
\* already there and another planned file could not have been written.
C11_WitnessLaterFaults ==
    /\ Failed
    /\ FirstFailingStep = "items"
    /\ FaultsHeld = {"items", "conflict", "write"}
    /\ stderr = <<readAssessmentTestItemIds(testDoc).error>>

-----------------------------------------------------------------------------
(* The documents on disk, read as XML.                                      *)

Entities ==
    { <<"&", "a", "m", "p", ";">>, <<"&", "l", "t", ";">>, <<"&", "g", "t", ";">>,
      <<"&", "q", "u", "o", "t", ";">>, <<"&", "a", "p", "o", "s", ";">> }

\* The character an entity reference stands for.
EntityChar(e) ==
    CASE e = <<"&", "a", "m", "p", ";">> -> "&"
      [] e = <<"&", "l", "t", ";">> -> "<"
      [] e = <<"&", "g", "t", ";">> -> ">"
      [] e = <<"&", "q", "u", "o", "t", ";">> -> "\""
      [] OTHER -> "'"

\* The value an XML parser gives for the text of an attribute: every entity
\* reference replaced by its character.
RECURSIVE XmlValue(_)
XmlValue(text) ==
    IF text = <<>> THEN <<>>
    ELSE IF Head(text) # "&" THEN <<Head(text)>> \o XmlValue(Tail(text))
    ELSE LET ends == {n \in 4..6 : n <= Len(text) /\ SubSeq(text, 1, n) \in Entities} IN
         IF ends # {}
         THEN LET n == CHOOSE m \in ends : TRUE IN
              <<EntityChar(SubSeq(text, 1, n))>> \o XmlValue(SubSeq(text, n + 1, Len(text)))
         ELSE <<Head(text)>> \o XmlValue(Tail(text))

\* The number a decimal numeral stands for (-1 when the text is not one).
RECURSIVE DecimalValue(_)
DecimalValue(text) ==
    IF text = <<>> \/ \E i \in 1..Len(text) : text[i] \notin Digits THEN -1
    ELSE LET last == CHOOSE n \in 0..9 : DigitChars[n + 1] = text[Len(text)] IN
         IF Len(text) = 1 THEN last
         ELSE 10 * DecimalValue(SubSeq(text, 1, Len(text) - 1)) + last

\* The document found at the path of the i-th plan entry.
DocumentAt(i) == ContentAt(fs, outputs[i].path)

\* The (identifier, sequenceIndex) pairs of the itemResults of a document.
ItemPairs(doc) ==
    [k \in 1..Len(doc.itemResults) |->
        <<XmlValue(doc.itemResults[k].attrs.identifier),
          DecimalValue(doc.itemResults[k].attrs.sequenceIndex)>>]

\* C12: every document the run has written holds one itemResult per
\* extracted item identifier, in extraction order, the k-th carrying the k-th
\* identifier and the sequenceIndex k; so the (identifier, sequenceIndex)
\* pairs are the same in every document of the run.
C12_ItemResultPerExtractedItem ==
    /\ \A i \in 1..written :
          /\ Len(DocumentAt(i).itemResults) = Len(itemIds)
          /\ \A k \in 1..Len(itemIds) :
                /\ DocumentAt(i).itemResults[k].tag = "itemResult"
                /\ ItemPairs(DocumentAt(i))[k] = <<itemIds[k], k>>
    /\ \A i \in 2..written : ItemPairs(DocumentAt(i)) = ItemPairs(DocumentAt(1))

\* C12 witness: a run has written the documents of two candidates from an
\* assessment test with two item references, one of them with an identifier
\* that is escaped in the document.
C12_Witness ==
    /\ WroteOutputs
    /\ written = 2
    /\ outputs[1].path # outputs[2].path
    /\ DocumentAt(1).context # DocumentAt(2).context
    /\ itemIds = <<ItemAmp, Item1>>
    /\ DocumentAt(1).itemResults[1].attrs.identifier # ItemAmp
    /\ ItemPairs(DocumentAt(2)) = << <<ItemAmp, 1>>, <<Item1, 2>> >>

\* The command line gives a datestamp.
DatestampGiven == FlagGiven(<<"--test-result-datestamp">>)

\* The elements of a document that may carry a datestamp: its testResult and
\* its itemResults.
Stamped(doc) ==
    <<doc.testResult>> \o [k \in 1..Len(doc.itemResults) |-> doc.itemResults[k].attrs]

\* The datestamps found on the documents the run has written.
DatestampsWritten ==
    {XmlValue(Stamped(DocumentAt(i))[k].datestamp) :
        <<i, k>> \in {<<i, k>> \in (1..written) \X (1..(MaxItems + 1)) :
                         /\ k <= Len(Stamped(DocumentAt(i)))
                         /\ "datestamp" \in DOMAIN Stamped(DocumentAt(i))[k]}}

C13_WitnessNoDatestamp ==
    /\ WroteOutputs
    /\ ~DatestampGiven
    /\ written = 2
    /\ Len(itemIds) = 2
    /\ DatestampsWritten = {}

\* What a run lacking a required option writes to stderr.
MissingArgumentsText == << <<"Missing required arguments.">>, <<>> >> \o HELP_TEXT

\* C14 (as claimed): a run that is over has exit status 0 or a non-zero one,
\* and a failed run, whatever its error, has written exactly one line to
\* stderr.
C14_OneDiagnosticLine ==
    /\ Done <=> exitCode # Running
    /\ Done => exitCode \in {<<0>>, <<1>>}
    /\ Failed => Len(stderr) = 1

\* C14 (amended): a run that is over has exit status 0 or 1; a failed run
\* has written nothing to stdout, and to stderr exactly one line, the message
\* of its error, unless it failed for lack of --roster or --assessment-test:
\* then it has written the line "Missing required arguments.", an empty line
\* and the lines of the help text.
C14_OneDiagnosticOrUsage ==
    /\ Done <=> exitCode # Running
    /\ Done => exitCode \in {<<0>>, <<1>>}
    /\ Failed =>
          /\ stdout = <<>>
          /\ IF ~UnknownArgument /\ ~AsksHelp /\ RequiredMissing
             THEN stderr = MissingArgumentsText
             ELSE Len(stderr) = 1 /\ stderr[1] # <<>>

\* C14 witness: a run without --roster has failed with the usage on stderr.
C14_Witness ==
    /\ Failed
    /\ ~FlagGiven(<<"--roster">>)
    /\ FlagGiven(<<"--assessment-test">>)
    /\ Len(stderr) = Len(HELP_TEXT) + 2
    /\ stderr[1] = <<"Missing required arguments.">>

\* A run has failed on a conflict with a single line on stderr, another has
\* ended a dry run with status 0.
C14_WitnessOneLine == Failed /\ Planned /\ PlanConflicts /\ Len(stderr) = 1

C14_WitnessDryRun == Succeeded /\ FlagGiven(<<"--dry-run">>) /\ Planned

\* The item references of a document, in document order.
ItemRefsOf(doc) == SelectSeq(doc, LAMBDA e : e.tag = ItemRefTag)

\* The item references that carry an identifier attribute.
IdentifiedRefsOf(doc) == SelectSeq(doc, LAMBDA e : e.tag = ItemRefTag /\ e.hasIdentifier)

\* The identifiers of the item references of a document, in document order.
IdentifiersOf(doc) ==
    [k \in 1..Len(IdentifiedRefsOf(doc)) |-> IdentifiedRefsOf(doc)[k].identifier]

\* The extractor has returned.
Extracted == testDoc.exists /\ pc # "readItems" /\ ~Failed

\* C15 (as claimed): when the extractor has returned, what it returned are
\* the identifiers of all item references of the document, in document
\* order, none of them empty and no two the same; and once a document
\* without any item reference has been read the extractor has failed.
C15_AllItemRefsReturned ==
    /\ Extracted =>
          /\ itemIds = IdentifiersOf(testDoc.lines)
          /\ \A k \in 1..Len(itemIds) : itemIds[k] # <<>>
          /\ \A j, k \in 1..Len(itemIds) : j # k => itemIds[j] # itemIds[k]
    /\ (testDoc.exists /\ ItemRefsOf(testDoc.lines) = <<>>) => Failed

\* The plan entries whose file lies in a directory that does not exist.
CannotWrite == {i \in 1..Len(outputs) : ~ParentExists(fsAtStart, outputs[i].path)}

\* The run got to its write loop and is over: the k-th write is the first
\* that fails, k being Least(CannotWrite).
WriteLoopFailed ==
    /\ Done
    /\ Planned
    /\ ~FlagGiven(<<"--dry-run">>)
    /\ ~(fsAtStart.dirExists /\ PlanConflicts /\ ~Overwrites)
    /\ CannotWrite # {}

\* The paths of the plan entries before the k-th.
PathsBefore(k) == {outputs[i].path : i \in 1..(k - 1)}

\* The last plan entry before the k-th with the given path.
LastBefore(k, path) ==
    CHOOSE i \in 1..(k - 1) :
        /\ outputs[i].path = path
        /\ \A j \in (i + 1)..(k - 1) : outputs[j].path # path

\* C16: when the k-th write of the write loop fails, the run is over with
\* exit status 1, each file planned before the k-th entry is on disk with the
\* document this run rendered for it (even where an older file was there),
\* and every other file is as it was before the run: neither the k-th file
\* nor a file planned after it has been written, and nothing was undone.
C16_FailedWriteKeepsEarlierFiles ==
    WriteLoopFailed =>
      LET k == Least(CannotWrite) IN
      /\ Failed
      /\ written = k - 1
      /\ \A p \in PathsBefore(k) :
            /\ FileExists(fs, p)
            /\ ContentAt(fs, p) = RenderedFor(LastBefore(k, p))
      /\ {e \in fs.files : e.path \notin PathsBefore(k)}
            = {e \in fsAtStart.files : e.path \notin PathsBefore(k)}
      /\ \A i \in k..Len(outputs) :
            outputs[i].path \notin PathsBefore(k)
            => (FileExists(fs, outputs[i].path) <=> FileExists(fsAtStart, outputs[i].path))

\* C16 witness: the second write of a run given --force has failed; the
\* first planned file, there before the run with older content, now holds
\* the document of the first row.
C16_Witness ==
    /\ WriteLoopFailed
    /\ Failed
    /\ Least(CannotWrite) = 2
    /\ FileExists(fsAtStart, outputs[1].path)
    /\ ContentAt(fsAtStart, outputs[1].path) = OldContent
    /\ ContentAt(fs, outputs[1].path) = RenderedFor(1)
    /\ RenderedFor(1) # OldContent

\* The first write of a run has failed and the file planned after it has not
\* been written.
C16_WitnessNothingAfter ==
    /\ WriteLoopFailed
    /\ Failed
    /\ Least(CannotWrite) = 1
    /\ Len(outputs) = 2
    /\ 2 \notin CannotWrite
    /\ ~FileExists(fs, outputs[2].path)
    /\ fs.dirExists /\ ~fsAtStart.dirExists

====
